---- MODULE Spec2Model ----
(***************************************************************************)
(* Model of the sum-to-10 elimination solver of azx-service-solver:        *)
(* the combination finder and the greedy solve loop (lib/solver, repeated  *)
(* in the plain worker), the worker message handlers and the React hook    *)
(* that owns the grid.                                                      *)
(*                                                                          *)
(* Arrays are JavaScript objects: a grid is an array of row arrays.  The   *)
(* row arrays live in `heap` and a grid is the sequence of the addresses   *)
(* of its rows, so that copying and aliasing are what the code makes them. *)
(* Coordinates in Cells are 0-based as in the source; sequences are        *)
(* 1-based, hence the +1 when a grid is indexed.                           *)
(***************************************************************************)
EXTENDS Integers, Sequences, FiniteSets, TLC

VARIABLES
  heap,         \* the row arrays allocated so far: address -> array of numbers
  initialGrid,  \* solvePuzzle's argument: the caller's grid object
  currentGrid,  \* solvePuzzle's local `currentGrid`
  steps,        \* solvePuzzle's local `steps`
  pc,           \* "idle" | "loop" | "returned": position in solvePuzzle
  call,         \* which call is being made: "first" | "again" | "resolve"
  callerGrid,   \* the grid object the caller holds (argument of the first call)
  firstResult,  \* the Step[] returned by the first call
  \* a solver worker and its two message channels
  workerKind,      \* "plain" (solvePuzzle in the worker) | "wasm" (solve_puzzle)
  inbox,           \* messages posted to the worker, not yet delivered
  outbox,          \* messages the worker posted, in order
  wasmInitialized, \* the worker's `wasmInitialized`
  tasks,           \* per message id (0: start-up): where its handler stands
  nextId,          \* id of the next message the main thread posts
  \* the useSolver hook (worker-backed)
  width, height,   \* useState(DEFAULT_WIDTH), useState(DEFAULT_HEIGHT)
  gridState,       \* the `grid` state, a value: React state is replaced, not written
  solution,        \* <<>> for null, <<steps>> for a Step[]
  currentStep,
  isSolving,
  isWasmReady,
  ops,             \* number of hook operations called so far
  lastOp           \* the last hook operation called, its arguments and result

coreVars == <<heap, initialGrid, currentGrid, steps, pc, call, callerGrid, firstResult>>

workerVars == <<workerKind, inbox, outbox, wasmInitialized, tasks, nextId>>

hookVars == <<width, height, gridState, solution, currentStep, isSolving, isWasmReady,
              ops, lastOp>>

vars == <<coreVars, workerVars, hookVars>>

----------------------------------------------------------------------------
(* Bounds of the model *)

\* largest number of cells (rows * columns) of an enumerated rectangular grid
MaxCells == 5

\* digits used in the enumerated rectangular grids
Values == {0, 2, 4}

\* values used in the malformed grids: digits plus an out-of-range one each side
LooseValues == {0, 5, 10, -5}

\* number of messages the main thread posts to one worker
MaxRequests == 2

\* number of operations called on the hook in one behaviour
MaxOps == 2

\* widths and heights chosen in the hook
Sizes == {1, 2}

----------------------------------------------------------------------------
(* Generic helpers on sequences *)

RECURSIVE SumSeq(_)
SumSeq(s) == IF s = <<>> THEN 0 ELSE s[1] + SumSeq(Tail(s))

RECURSIVE Flatten(_)
Flatten(ss) == IF ss = <<>> THEN <<>> ELSE ss[1] \o Flatten(Tail(ss))

Range(s) == {s[i] : i \in 1..Len(s)}

Min(S) == CHOOSE x \in S : \A y \in S : x <= y
Max(S) == CHOOSE x \in S : \A y \in S : x >= y

----------------------------------------------------------------------------
(* Reading a grid *)

\* the value of a grid object: its row arrays, read through the heap
Deref(h, g) == [i \in 1..Len(g) |-> h[g[i]]]

\* grid[r][c] is an element of the grid (otherwise the read yields undefined)
Defined(grid, r, c) ==
  /\ r + 1 \in 1..Len(grid)
  /\ c + 1 \in 1..Len(grid[r + 1])

\* `grid[r][c] > 0`: false for 0, for a negative number and for undefined
IsPositive(grid, r, c) == Defined(grid, r, c) /\ grid[r + 1][c + 1] > 0

\* `value !== 0`: true for every number but 0, and for undefined
IsNotZero(grid, r, c) == ~Defined(grid, r, c) \/ grid[r + 1][c + 1] # 0

\* countRemainingBlocks: grid.flat().filter(v => v > 0).length
countRemainingBlocks(grid) ==
  Len(SelectSeq(Flatten(grid), LAMBDA v : v > 0))

----------------------------------------------------------------------------
(* lib/solver: subsets and the gap rule *)

\* getAllSubsets: subsets = [[]]; every item doubles the list, in order
RECURSIVE getAllSubsets(_)
getAllSubsets(arr) ==
  IF arr = <<>> THEN << <<>> >>
  ELSE LET subsets == getAllSubsets(SubSeq(arr, 1, Len(arr) - 1))
           item == arr[Len(arr)]
       IN subsets \o [i \in 1..Len(subsets) |-> Append(subsets[i], item)]

\* variant: the reduction starts from the first cell's value instead of 0
sumOfSeeded(cells) ==
  cells[1].value + SumSeq([i \in 1..Len(cells) |-> cells[i].value])

\* subset.reduce((acc, cell) => acc + cell.value, 0)
sumOf(cells) == SumSeq([i \in 1..Len(cells) |-> cells[i].value])

\* variant: a skipped column fails the check even when it holds 0
isValidHorizontalSelectionContiguous(cells, row) ==
  IF Len(cells) = 0 THEN FALSE
  ELSE IF Len(cells) = 1 THEN TRUE
  ELSE LET cols == {cells[i].col : i \in 1..Len(cells)}
       IN \A col \in Min(cols)..Max(cols) :
            \E i \in 1..Len(cells) : cells[i].col = col

isValidHorizontalSelection(cells, row) ==
  IF Len(cells) = 0 THEN FALSE
  ELSE IF Len(cells) = 1 THEN TRUE
  ELSE LET cols == {cells[i].col : i \in 1..Len(cells)}
           minCol == Min(cols)
           maxCol == Max(cols)
       IN \A col \in minCol..maxCol :
            LET isSelected == \E i \in 1..Len(cells) : cells[i].col = col
            IN ~(~isSelected /\ IsNotZero(<<row>>, 0, col))

\* variant: the loop over the rows between is missing
isValidVerticalSelectionNoGapCheck(cells, grid, col) ==
  IF Len(cells) = 0 THEN FALSE ELSE TRUE

isValidVerticalSelection(cells, grid, col) ==
  IF Len(cells) = 0 THEN FALSE
  ELSE IF Len(cells) = 1 THEN TRUE
  ELSE LET rows == {cells[i].row : i \in 1..Len(cells)}
           minRow == Min(rows)
           maxRow == Max(rows)
       IN \A row \in minRow..maxRow :
            LET isSelected == \E i \in 1..Len(cells) : cells[i].row = row
            IN ~(~isSelected /\ IsNotZero(grid, row, col))

----------------------------------------------------------------------------
(* lib/solver: the dedup key, a string; strings are sequences of code units *)

RECURSIVE Digits(_)
Digits(n) == IF n < 10 THEN <<48 + n>> ELSE Digits(n \div 10) \o <<48 + (n % 10)>>

\* `${c.row}-${c.col}`
coordString(c) == Digits(c.row) \o <<45>> \o Digits(c.col)

\* the order of Array.prototype.sort() without comparator: by code units
RECURSIVE StringBefore(_, _)
StringBefore(a, b) ==
  IF b = <<>> THEN FALSE
  ELSE IF a = <<>> THEN TRUE
  ELSE IF a[1] # b[1] THEN a[1] < b[1]
  ELSE StringBefore(Tail(a), Tail(b))

RECURSIVE InsertString(_, _)
InsertString(sorted, x) ==
  IF sorted = <<>> THEN <<x>>
  ELSE IF StringBefore(x, sorted[1]) THEN <<x>> \o sorted
  ELSE <<sorted[1]>> \o InsertString(Tail(sorted), x)

RECURSIVE sortStrings(_)
sortStrings(ss) ==
  IF ss = <<>> THEN <<>>
  ELSE InsertString(sortStrings(SubSeq(ss, 1, Len(ss) - 1)), ss[Len(ss)])

\* .join('|')
RECURSIVE joinBar(_)
joinBar(ss) ==
  IF ss = <<>> THEN <<>>
  ELSE IF Len(ss) = 1 THEN ss[1]
  ELSE ss[1] \o <<124>> \o joinBar(Tail(ss))

\* cells.map(c => `${c.row}-${c.col}`).sort().join('|')
combinationKey(cells) ==
  joinBar(sortStrings([i \in 1..Len(cells) |-> coordString(cells[i])]))

\* variant: the cells are pushed whether or not the key was seen
addCombinationNoSeen(acc, cells) ==
  [combinations |-> Append(acc.combinations, cells),
   seen |-> acc.seen \cup {combinationKey(cells)}]

\* addCombination on the pair (combinations, seen)
addCombination(acc, cells) ==
  LET key == combinationKey(cells)
  IN IF key \notin acc.seen
     THEN [combinations |-> Append(acc.combinations, cells),
           seen |-> acc.seen \cup {key}]
     ELSE acc

RECURSIVE addAll(_, _)
addAll(acc, candidates) ==
  IF candidates = <<>> THEN acc
  ELSE addAll(addCombination(acc, candidates[1]), Tail(candidates))

----------------------------------------------------------------------------
(* lib/solver: findValidCombinations *)

\* grid[row].map((value, col) => ({row, col, value})).filter(cell => cell.value > 0)
rowCells(grid, row) ==
  SelectSeq([j \in 1..Len(grid[row + 1]) |->
               [row |-> row, col |-> j - 1, value |-> grid[row + 1][j]]],
            LAMBDA cell : cell.value > 0)

\* the cells pushed onto colCells: rows top to bottom, where grid[row][col] > 0
colCells(grid, col) ==
  LET picked == SelectSeq([i \in 1..Len(grid) |-> i - 1],
                          LAMBDA row : IsPositive(grid, row, col))
  IN [k \in 1..Len(picked) |->
        [row |-> picked[k], col |-> col, value |-> grid[picked[k] + 1][col + 1]]]

\* variant: the loops stop before maxRow and maxCol
rectCellsExclusive(grid, minRow, minCol, maxRow, maxCol) ==
  Flatten([i \in 1..(maxRow - minRow) |->
    LET r == minRow + i - 1
        picked == SelectSeq([j \in 1..(maxCol - minCol) |-> minCol + j - 1],
                            LAMBDA c : IsPositive(grid, r, c))
    IN [k \in 1..Len(picked) |->
          [row |-> r, col |-> picked[k], value |-> grid[r + 1][picked[k] + 1]]]])

\* the cells pushed onto rectCells: row-major, where grid[r][c] > 0
rectCells(grid, minRow, minCol, maxRow, maxCol) ==
  Flatten([i \in 1..(maxRow - minRow + 1) |->
    LET r == minRow + i - 1
        picked == SelectSeq([j \in 1..(maxCol - minCol + 1) |-> minCol + j - 1],
                            LAMBDA c : IsPositive(grid, r, c))
    IN [k \in 1..Len(picked) |->
          [row |-> r, col |-> picked[k], value |-> grid[r + 1][picked[k] + 1]]]])

\* variant: `if (sum > 10) continue`, which lets smaller sums through
horizontalSelectionsUpToTen(grid) ==
  Flatten([i \in 1..Len(grid) |->
    SelectSeq(getAllSubsets(rowCells(grid, i - 1)),
              LAMBDA subset : /\ Len(subset) # 0
                              /\ sumOf(subset) <= 10
                              /\ isValidHorizontalSelection(subset, grid[i])) ])

\* pass 1: the subsets handed to addCombination, in order
horizontalSelections(grid) ==
  Flatten([i \in 1..Len(grid) |->
    SelectSeq(getAllSubsets(rowCells(grid, i - 1)),
              LAMBDA subset : /\ Len(subset) # 0
                              /\ sumOf(subset) = 10
                              /\ isValidHorizontalSelection(subset, grid[i])) ])

\* variant: `if (sum > 10) continue`, which lets smaller sums through
verticalSelectionsUpToTen(grid, cols) ==
  Flatten([j \in 1..cols |->
    SelectSeq(getAllSubsets(colCells(grid, j - 1)),
              LAMBDA subset : /\ Len(subset) # 0
                              /\ sumOf(subset) <= 10
                              /\ isValidVerticalSelection(subset, grid, j - 1)) ])

\* pass 2: the subsets handed to addCombination, in order
verticalSelections(grid, cols) ==
  Flatten([j \in 1..cols |->
    SelectSeq(getAllSubsets(colCells(grid, j - 1)),
              LAMBDA subset : /\ Len(subset) # 0
                              /\ sumOf(subset) = 10
                              /\ isValidVerticalSelection(subset, grid, j - 1)) ])

\* variant: `maxRow < rows - 1`, the last row is never reached
rectangularSelectionsMissLastRow(grid, rows, cols) ==
  Flatten([a \in 1..rows |-> Flatten([b \in 1..cols |->
    Flatten([c \in 1..(rows - a) |-> Flatten([d \in 1..(cols - b + 1) |->
      LET minRow == a - 1
          minCol == b - 1
          maxRow == minRow + c - 1
          maxCol == minCol + d - 1
          cells == rectCells(grid, minRow, minCol, maxRow, maxCol)
      IN IF minRow = maxRow \/ minCol = maxCol THEN <<>>
         ELSE IF Len(cells) = 0 THEN <<>>
         ELSE IF sumOf(cells) = 10 THEN <<cells>>
         ELSE <<>> ]) ]) ]) ])

\* pass 3: the cell lists handed to addCombination, in the order of the four loops
rectangularSelections(grid, rows, cols) ==
  Flatten([a \in 1..rows |-> Flatten([b \in 1..cols |->
    Flatten([c \in 1..(rows - a + 1) |-> Flatten([d \in 1..(cols - b + 1) |->
      LET minRow == a - 1
          minCol == b - 1
          maxRow == minRow + c - 1
          maxCol == minCol + d - 1
          cells == rectCells(grid, minRow, minCol, maxRow, maxCol)
      IN IF minRow = maxRow \/ minCol = maxCol THEN <<>>
         ELSE IF Len(cells) = 0 THEN <<>>
         ELSE IF sumOf(cells) = 10 THEN <<cells>>
         ELSE <<>> ]) ]) ]) ])

findValidCombinations(grid) ==
  LET rows == Len(grid)
      cols == IF rows > 0 THEN Len(grid[1]) ELSE 0
      candidates == horizontalSelections(grid)
                      \o verticalSelections(grid, cols)
                      \o rectangularSelections(grid, rows, cols)
  IN addAll([combinations |-> <<>>, seen |-> {}], candidates).combinations

----------------------------------------------------------------------------
(* lib/solver: solvePuzzle *)

\* variant: the length test is turned round, fewer cells first
compareCombinationsFewestFirst(a, b) ==
  IF Len(b) # Len(a) THEN Len(a) - Len(b) ELSE a[1].col - b[1].col

\* variant: the column test is turned round, larger a[0].col first
compareCombinationsRightmost(a, b) ==
  IF Len(b) # Len(a) THEN Len(b) - Len(a) ELSE b[1].col - a[1].col

\* the comparator handed to sort: more cells first, then smaller a[0].col
compareCombinations(a, b) ==
  IF Len(b) # Len(a) THEN Len(b) - Len(a) ELSE a[1].col - b[1].col

\* variant: an unstable sort that puts an element before its equals
RECURSIVE InsertCombinationBeforeEqual(_, _)
InsertCombinationBeforeEqual(sorted, x) ==
  IF sorted = <<>> THEN <<x>>
  ELSE IF compareCombinations(sorted[1], x) < 0
       THEN <<sorted[1]>> \o InsertCombinationBeforeEqual(Tail(sorted), x)
  ELSE <<x>> \o sorted

\* Array.prototype.sort is stable: an element goes after those not greater
RECURSIVE InsertCombination(_, _)
InsertCombination(sorted, x) ==
  IF sorted = <<>> THEN <<x>>
  ELSE IF compareCombinations(sorted[1], x) <= 0
       THEN <<sorted[1]>> \o InsertCombination(Tail(sorted), x)
  ELSE <<x>> \o sorted

RECURSIVE sortCombinations(_)
sortCombinations(cs) ==
  IF cs = <<>> THEN <<>>
  ELSE InsertCombination(sortCombinations(SubSeq(cs, 1, Len(cs) - 1)), cs[Len(cs)])

\* variant: the last element of the sorted list is taken
bestCombinationLast(combinations) ==
  sortCombinations(combinations)[Len(combinations)]

\* sortedCombinations[0]
bestCombination(combinations) == sortCombinations(combinations)[1]

\* variant: [...g], a copy of the outer array that shares the row arrays
copyGridShared(h, g) == [heap |-> h, grid |-> g]

\* g.map(row => [...row]): fresh row arrays holding the same numbers
copyGrid(h, g) ==
  [heap |-> h \o Deref(h, g),
   grid |-> [i \in 1..Len(g) |-> Len(h) + i]]

\* variant: the loop over the cells stops one short
RECURSIVE clearCellsSkipLast(_, _, _)
clearCellsSkipLast(h, g, cells) ==
  IF Len(cells) <= 1 THEN h
  ELSE LET a == g[cells[1].row + 1]
       IN clearCellsSkipLast([h EXCEPT ![a][cells[1].col + 1] = 0], g, Tail(cells))

\* variant: the zeros are written to a spread copy of the row and lost
clearCellsOnCopy(h, g, cells) == h

\* variant: only the first cell of the Move is written
clearCellsFirstOnly(h, g, cells) ==
  IF cells = <<>> THEN h
  ELSE [h EXCEPT ![g[cells[1].row + 1]][cells[1].col + 1] = 0]

\* for (const cell of cells) newGrid[cell.row][cell.col] = 0
RECURSIVE clearCells(_, _, _)
clearCells(h, g, cells) ==
  IF cells = <<>> THEN h
  ELSE LET a == g[cells[1].row + 1]
       IN clearCells([h EXCEPT ![a][cells[1].col + 1] = 0], g, Tail(cells))

\* variant: the Step records the grid the Move was found in
applyBestStaleSnapshot(h, cur) ==
  LET best == bestCombination(findValidCombinations(Deref(h, cur)))
      copy == copyGrid(h, cur)
  IN [heap |-> clearCells(copy.heap, copy.grid, best),
      grid |-> copy.grid,
      step |-> [cells |-> best, sum |-> 10, gridAfter |-> cur]]

\* one pass of the while loop that does not break: the new heap, grid and Step
applyBest(h, cur) ==
  LET best == bestCombination(findValidCombinations(Deref(h, cur)))
      copy == copyGrid(h, cur)
  IN [heap |-> clearCells(copy.heap, copy.grid, best),
      grid |-> copy.grid,
      step |-> [cells |-> best, sum |-> 10, gridAfter |-> copy.grid]]

----------------------------------------------------------------------------
(* The grids handed to the solver *)

\* the rectangular grids of at most MaxCells cells over Values
Shapes == {rc \in (1..MaxCells) \X (1..MaxCells) : rc[1] * rc[2] <= MaxCells}
RectangularGrids == UNION {[1..rc[1] -> [1..rc[2] -> Values]] : rc \in Shapes}

\* the grids of the scenarios A, B, D and C
ScenarioA == << <<5, 0, 5>> >>
ScenarioB == << <<1, 1>>, <<4, 4>> >>
ScenarioD == << <<1, 2, 3, 4>>, <<4, 3, 2, 1>> >>
ScenarioC == << <<3, 4>> >>
ScenarioGrids == {ScenarioA, ScenarioB, ScenarioD, ScenarioC}

\* a grid of the largest width GridConfig allows, with columns of two digits
WideGrid == << <<0, 0, 5, 0, 0, 0, 0, 0, 0, 0, 5, 5>>,
               <<0, 0, 0, 0, 0, 0, 0, 0, 0, 0, 0, 0>> >>

\* arrays of arrays nothing has validated: no rows, empty rows, rows of
\* different lengths, numbers outside 0..9
LooseRows == UNION {[1..n -> LooseValues] : n \in {0, 1, 2}}
LooseGrids == UNION {[1..n -> LooseRows] : n \in {0, 1, 2}}

\* grids of six cells: a tie between a row Move and a rectangle Move whose
\* first cell is not in its leftmost column, and a grid solved in two Steps
TieGrid == << <<0, 0, 2>>, <<2, 4, 4>> >>
TwoStepGrid == << <<2, 4, 4>>, <<4, 4, 2>> >>

\* a grid of six cells solved in two Steps that leave a block behind
LeftoverGrid == << <<5, 5, 3>>, <<5, 5, 0>> >>

InputGrids ==
  RectangularGrids \cup ScenarioGrids
    \cup {WideGrid, TieGrid, TwoStepGrid, LeftoverGrid} \cup LooseGrids

----------------------------------------------------------------------------
(* solvePuzzle as a state machine: the caller and the loop *)

\* an operation of the hook as recorded in lastOp
Op(name, arg, row, col, value, ret) ==
  [name |-> name, arg |-> arg, row |-> row, col |-> col, value |-> value, ret |-> ret]

NoOp == Op("none", <<>>, 0, 0, 0, FALSE)

\* createEmptyGrid: Array(height).fill(null).map(() => Array(width).fill(0))
createEmptyGrid(h, w) == [i \in 1..h |-> [j \in 1..w |-> 0]]

\* the hook is not mounted
NoHook ==
  /\ width = 0
  /\ height = 0
  /\ gridState = <<>>
  /\ solution = <<>>
  /\ currentStep = 0
  /\ isSolving = FALSE
  /\ isWasmReady = FALSE
  /\ ops = 0
  /\ lastOp = NoOp

\* no worker exists
NoWorker ==
  /\ workerKind = "none"
  /\ inbox = <<>>
  /\ outbox = <<>>
  /\ wasmInitialized = FALSE
  /\ tasks = <<>>
  /\ nextId = 1

Init ==
  /\ \E g \in InputGrids :
       /\ heap = g
       /\ callerGrid = [i \in 1..Len(g) |-> i]
  /\ initialGrid = <<>>
  /\ currentGrid = <<>>
  /\ steps = <<>>
  /\ pc = "idle"
  /\ call = "first"
  /\ firstResult = <<>>
  /\ NoWorker
  /\ NoHook

\* const steps = []; let currentGrid = initialGrid.map(row => [...row])
Enter(g) ==
  LET copy == copyGrid(heap, g)
  IN /\ initialGrid' = g
     /\ heap' = copy.heap
     /\ currentGrid' = copy.grid
     /\ steps' = <<>>
     /\ pc' = "loop"

\* the caller solves the grid it holds
SolveCallerGrid ==
  /\ pc = "idle"
  /\ Enter(callerGrid)
  /\ UNCHANGED <<call, callerGrid, firstResult, workerVars, hookVars>>

\* a pass of the loop with combinations.length > 0
Iterate ==
  /\ pc = "loop"
  /\ Len(findValidCombinations(Deref(heap, currentGrid))) # 0
  /\ LET r == applyBest(heap, currentGrid)
     IN /\ heap' = r.heap
        /\ currentGrid' = r.grid
        /\ steps' = Append(steps, r.step)
  /\ UNCHANGED <<initialGrid, pc, call, callerGrid, firstResult, workerVars, hookVars>>

\* if (combinations.length === 0) break; return steps
Break ==
  /\ pc = "loop"
  /\ Len(findValidCombinations(Deref(heap, currentGrid))) = 0
  /\ pc' = "returned"
  /\ UNCHANGED <<heap, initialGrid, currentGrid, steps, call, callerGrid, firstResult, workerVars, hookVars>>

\* the caller solves the same grid object a second time
SolveAgain ==
  /\ pc = "returned"
  /\ call = "first"
  /\ call' = "again"
  /\ firstResult' = steps
  /\ Enter(callerGrid)
  /\ UNCHANGED <<callerGrid, workerVars, hookVars>>

\* the caller solves the gridAfter of the final Step it was given
SolveFinalGrid ==
  /\ pc = "returned"
  /\ call = "first"
  /\ Len(steps) > 0
  /\ call' = "resolve"
  /\ firstResult' = steps
  /\ Enter(steps[Len(steps)].gridAfter)
  /\ UNCHANGED <<callerGrid, workerVars, hookVars>>

Next ==
  \/ SolveCallerGrid
  \/ Iterate
  \/ Break
  \/ SolveAgain
  \/ SolveFinalGrid

Spec == Init /\ [][Next]_vars

----------------------------------------------------------------------------
(* Vocabulary of the properties *)

\* every value of the grid is a digit 0..9
DigitGrid(grid) ==
  \A i \in 1..Len(grid) : \A j \in 1..Len(grid[i]) : grid[i][j] \in 0..9

\* rectangular with R >= 1 and C >= 1, every value a digit
IsValidGrid(grid) ==
  /\ Len(grid) >= 1
  /\ Len(grid[1]) >= 1
  /\ \A i \in 1..Len(grid) : Len(grid[i]) = Len(grid[1])
  /\ DigitGrid(grid)

\* the grid the running call was given, and the one the caller holds
ArgumentGrid == Deref(heap, initialGrid)
HeldGrid == Deref(heap, callerGrid)

\* the grid Step k of the Step list ss was derived from, and its gridAfter
GridBefore(ss, k) ==
  IF k = 1 THEN ArgumentGrid ELSE Deref(heap, ss[k - 1].gridAfter)
GridAfter(ss, k) == Deref(heap, ss[k].gridAfter)

Coordinates(cells) == {<<cells[i].row, cells[i].col>> : i \in 1..Len(cells)}

\* a Step list with the gridAfter objects replaced by their values
StepValues(ss) ==
  [k \in 1..Len(ss) |->
     [cells |-> ss[k].cells, sum |-> ss[k].sum, gridAfter |-> GridAfter(ss, k)]]

\* the cells of a Move are cells of `grid`, nonzero there, and sum to 10
SoundMove(cells, grid) ==
  /\ \A i \in 1..Len(cells) :
       /\ Defined(grid, cells[i].row, cells[i].col)
       /\ cells[i].value = grid[cells[i].row + 1][cells[i].col + 1]
       /\ cells[i].value # 0
  /\ SumSeq([i \in 1..Len(cells) |-> cells[i].value]) = 10

----------------------------------------------------------------------------
(* C1 .. C6: contracts of the solve loop *)

\* C1: on a grid of digits 0..9, every Move findValidCombinations returns for
\* the current grid and every Step emitted so far records, for each cell, the
\* nonzero value the grid held there when the Move was formed; the values sum
\* to exactly 10 and the Step's sum field is 10.
C1_MovesSumToTen ==
  (pc # "idle" /\ DigitGrid(ArgumentGrid)) =>
    /\ pc = "loop" =>
         LET grid == Deref(heap, currentGrid)
             combinations == findValidCombinations(grid)
         IN \A m \in 1..Len(combinations) : SoundMove(combinations[m], grid)
    /\ \A k \in 1..Len(steps) :
         /\ SoundMove(steps[k].cells, GridBefore(steps, k))
         /\ steps[k].sum = 10

C1_Witness ==
  /\ pc = "returned"
  /\ DigitGrid(ArgumentGrid)
  /\ Len(steps) >= 2

\* C2: gridAfter of Step k has the dimensions of the grid the Step was derived
\* from, is 0 exactly at the coordinates of the Step's cells (where that grid
\* was not 0), and has the same value everywhere else.
C2_GridAfterFrame ==
  \A k \in 1..Len(steps) :
    LET before == GridBefore(steps, k)
        after == GridAfter(steps, k)
        cleared == Coordinates(steps[k].cells)
    IN /\ Len(after) = Len(before)
       /\ \A i \in 1..Len(before) :
            /\ Len(after[i]) = Len(before[i])
            /\ \A j \in 1..Len(before[i]) :
                 IF <<i - 1, j - 1>> \in cleared
                 THEN after[i][j] = 0 /\ before[i][j] # 0
                 ELSE after[i][j] = before[i][j]

C2_Witness ==
  /\ pc = "returned"
  /\ Len(steps) >= 2
  /\ \E i \in 1..Len(ArgumentGrid) : \E j \in 1..Len(ArgumentGrid[i]) :
       GridAfter(steps, Len(steps))[i][j] # 0

\* C3: on a rectangular grid of digits every Step strictly reduces the number
\* of nonzero cells, so the Steps taken plus the nonzero cells still present
\* never exceed the nonzero cells of the initial grid: the loop ends within
\* count_nonzero(initialGrid) passes and returns at most that many Steps.
C3_TerminationBound ==
  (pc # "idle" /\ IsValidGrid(ArgumentGrid)) =>
    /\ \A k \in 1..Len(steps) :
         countRemainingBlocks(GridAfter(steps, k))
           < countRemainingBlocks(GridBefore(steps, k))
    /\ Len(steps) + countRemainingBlocks(Deref(heap, currentGrid))
         <= countRemainingBlocks(ArgumentGrid)
    /\ Len(steps) <= countRemainingBlocks(ArgumentGrid)

C3_Witness ==
  /\ pc = "returned"
  /\ IsValidGrid(ArgumentGrid)
  /\ Len(steps) >= 2

\* C4: solving the gridAfter of the final Step of a non-empty solution returns
\* no Step; the loop is left only in a grid without any Move, and that grid is
\* the gridAfter of the last Step.
C4_Idempotent ==
  pc = "returned" =>
    /\ findValidCombinations(Deref(heap, currentGrid)) = <<>>
    /\ Len(steps) > 0 => GridAfter(steps, Len(steps)) = Deref(heap, currentGrid)
    /\ call = "resolve" => steps = <<>>

C4_Witness ==
  /\ pc = "returned"
  /\ call = "resolve"
  /\ Len(firstResult) >= 2
  /\ countRemainingBlocks(ArgumentGrid) > 0

\* the positions, in the order findValidCombinations returned them, of the
\* Moves with the most cells and, among those, the smallest cells[0].col
Preferred(combinations) ==
  LET most == {m \in 1..Len(combinations) :
                 \A n \in 1..Len(combinations) :
                   Len(combinations[n]) <= Len(combinations[m])}
  IN {m \in most : \A n \in most : combinations[m][1].col <= combinations[n][1].col}

\* C5: the solution is a function of the grid: a second call on the same grid
\* returns the same Steps (cells, order, gridAfter), and every Step takes the
\* Move enumerated first among those tied on cell count and first-cell column.
C5_Deterministic ==
  /\ \A k \in 1..Len(steps) :
       LET combinations == findValidCombinations(GridBefore(steps, k))
       IN steps[k].cells = combinations[Min(Preferred(combinations))]
  /\ (call = "again" /\ pc = "returned") => StepValues(steps) = StepValues(firstResult)

C5_Witness ==
  /\ call = "again"
  /\ pc = "returned"
  /\ Len(steps) >= 2
  /\ Cardinality(Preferred(findValidCombinations(ArgumentGrid))) >= 2

\* C6: no step of a solve changes the grid the caller holds, nor the gridAfter
\* of a Step already recorded (in this call or in a result returned earlier);
\* a Step's gridAfter is the grid as it is right after the Step was applied.
C6_NoMutation ==
  [][ /\ Deref(heap', callerGrid) = Deref(heap, callerGrid)
      /\ \A k \in 1..Len(steps) :
           Deref(heap', steps[k].gridAfter) = Deref(heap, steps[k].gridAfter)
      /\ \A k \in 1..Len(firstResult) :
           Deref(heap', firstResult[k].gridAfter) = Deref(heap, firstResult[k].gridAfter)
      /\ Len(steps') = Len(steps) + 1 =>
           Deref(heap', steps'[Len(steps')].gridAfter) = Deref(heap', currentGrid')
    ]_vars

C6_Witness ==
  /\ pc = "returned"
  /\ call = "again"
  /\ Len(steps) >= 2
  /\ HeldGrid # GridAfter(steps, 1)

----------------------------------------------------------------------------
(* C9, C10: scenarios *)

\* C9 (scenario A): solving [[5,0,5]] returns exactly one Step, whose cells are
\* (0,0,5) and (0,2,5) -- the 0 at column 1 satisfies the gap rule -- and whose
\* gridAfter is [[0,0,0]].
C9_ScenarioA ==
  (pc = "returned" /\ ArgumentGrid = ScenarioA) =>
    /\ Len(steps) = 1
    /\ steps[1].cells = << [row |-> 0, col |-> 0, value |-> 5],
                           [row |-> 0, col |-> 2, value |-> 5] >>
    /\ steps[1].sum = 10
    /\ GridAfter(steps, 1) = << <<0, 0, 0>> >>

C9_Witness ==
  /\ pc = "returned"
  /\ call = "first"
  /\ ArgumentGrid = ScenarioA
  /\ Len(steps) = 1

\* C10 (scenario B): solving [[1,1],[4,4]] returns exactly one Step, the
\* rectangle Move over all four cells, with gridAfter [[0,0],[0,0]]; no Move
\* within one row or one column exists in that grid.
C10_ScenarioB ==
  /\ (pc = "returned" /\ ArgumentGrid = ScenarioB) =>
       /\ Len(steps) = 1
       /\ steps[1].cells = << [row |-> 0, col |-> 0, value |-> 1],
                              [row |-> 0, col |-> 1, value |-> 1],
                              [row |-> 1, col |-> 0, value |-> 4],
                              [row |-> 1, col |-> 1, value |-> 4] >>
       /\ GridAfter(steps, 1) = << <<0, 0>>, <<0, 0>> >>
  /\ (pc = "loop" /\ steps = <<>> /\ ArgumentGrid = ScenarioB) =>
       /\ horizontalSelections(ArgumentGrid) = <<>>
       /\ verticalSelections(ArgumentGrid, Len(ArgumentGrid[1])) = <<>>
       /\ Len(findValidCombinations(ArgumentGrid)) = 1

C10_Witness ==
  /\ pc = "returned"
  /\ call = "first"
  /\ ArgumentGrid = ScenarioB
  /\ Len(steps) = 1

----------------------------------------------------------------------------
(* C11, C12: scenarios D and C *)

\* the cells of row `row` of a grid, as Cells
RowOf(grid, row) ==
  [j \in 1..Len(grid[row + 1]) |-> [row |-> row, col |-> j - 1, value |-> grid[row + 1][j]]]

\* C11 (scenario D): solving [[1,2,3,4],[4,3,2,1]] returns two Steps, the whole
\* of row 0 and then the whole of row 1 (first enumerated of the five Moves of
\* four cells), so the final gridAfter has fewer nonzero cells than the input;
\* a second call returns the same Steps, and solving the final gridAfter
\* returns no Step.
C11_ScenarioD ==
  (pc = "returned" /\ HeldGrid = ScenarioD) =>
    /\ call \in {"first", "again"} =>
         /\ Len(steps) = 2
         /\ steps[1].cells = RowOf(ScenarioD, 0)
         /\ steps[2].cells = RowOf(ScenarioD, 1)
         /\ GridAfter(steps, 1) = << <<0, 0, 0, 0>>, <<4, 3, 2, 1>> >>
         /\ GridAfter(steps, 2) = << <<0, 0, 0, 0>>, <<0, 0, 0, 0>> >>
         /\ countRemainingBlocks(GridAfter(steps, Len(steps)))
              < countRemainingBlocks(ScenarioD)
    /\ call = "again" => StepValues(steps) = StepValues(firstResult)
    /\ call = "resolve" =>
         /\ ArgumentGrid = GridAfter(firstResult, Len(firstResult))
         /\ steps = <<>>

C11_Witness ==
  /\ pc = "returned"
  /\ call = "resolve"
  /\ HeldGrid = ScenarioD
  /\ Len(firstResult) = 2
  /\ steps = <<>>

\* every value of the grid is 0
AllZero(grid) ==
  \A i \in 1..Len(grid) : \A j \in 1..Len(grid[i]) : grid[i][j] = 0

\* C12 (scenario C): [[3,4]] and every all-zero grid have no Move, and a call
\* on a grid without any Move returns the empty Step list: the loop breaks in
\* its first pass, with no Step pushed.
C12_ScenarioC ==
  /\ (pc # "idle" /\ (ArgumentGrid = ScenarioC \/ AllZero(ArgumentGrid))) =>
       findValidCombinations(ArgumentGrid) = <<>>
  /\ (pc = "returned" /\ findValidCombinations(ArgumentGrid) = <<>>) => steps = <<>>

C12_Witness ==
  /\ pc = "returned"
  /\ call = "first"
  /\ ArgumentGrid = ScenarioC
  /\ steps = <<>>

----------------------------------------------------------------------------
(* C13, C14: the choice among the candidates *)

\* the candidates the Move of Step k was chosen from
CandidatesOf(ss, k) == findValidCombinations(GridBefore(ss, k))

\* C13: the Move applied by a Step is one of the candidates of the grid the
\* Step was derived from, and no candidate has more cells.
C13_LargestFirst ==
  \A k \in 1..Len(steps) :
    LET combinations == CandidatesOf(steps, k)
    IN /\ \E m \in 1..Len(combinations) : combinations[m] = steps[k].cells
       /\ \A m \in 1..Len(combinations) : Len(combinations[m]) <= Len(steps[k].cells)

\* a Step chosen among candidates of different sizes
C13_Witness ==
  /\ pc = "returned"
  /\ \E k \in 1..Len(steps) :
       \E m \in 1..Len(CandidatesOf(steps, k)) :
         Len(CandidatesOf(steps, k)[m]) < Len(steps[k].cells)

\* the smallest column among the cells of a Move
MinCol(cells) == Min({cells[i].col : i \in 1..Len(cells)})

\* C14: among the candidates with as many cells as the applied Move, none has
\* a first cell (cells[0]) in a smaller column than the applied Move's first
\* cell.
C14_LeftmostFirstCell ==
  \A k \in 1..Len(steps) :
    LET combinations == CandidatesOf(steps, k)
    IN \A m \in 1..Len(combinations) :
         Len(combinations[m]) = Len(steps[k].cells) =>
           steps[k].cells[1].col <= combinations[m][1].col

\* a tie on the cell count in which the first cell decides against the
\* minimum column: a candidate reaching further left than the applied Move's
\* first cell lost because its own first cell is not further left
C14_Witness ==
  /\ pc = "returned"
  /\ \E k \in 1..Len(steps) :
       \E m \in 1..Len(CandidatesOf(steps, k)) :
         LET other == CandidatesOf(steps, k)[m]
         IN /\ Len(other) = Len(steps[k].cells)
            /\ other # steps[k].cells
            /\ MinCol(other) < other[1].col
            /\ steps[k].cells[1].col < other[1].col

----------------------------------------------------------------------------
(* C15, C16, C17: what findValidCombinations returns *)

\* the grid of the current pass of the loop
LoopGrid == Deref(heap, currentGrid)

\* the coordinate sets of the Moves returned for a grid
ReturnedSets(grid) ==
  LET combinations == findValidCombinations(grid)
  IN {Coordinates(combinations[m]) : m \in 1..Len(combinations)}

\* the sum of the values a grid holds at the coordinates of S
RECURSIVE ValueSum(_, _)
ValueSum(grid, S) ==
  IF S = {} THEN 0
  ELSE LET p == CHOOSE q \in S : TRUE
       IN grid[p[1] + 1][p[2] + 1] + ValueSum(grid, S \ {p})

\* the coordinates of the nonzero cells of a grid inside a rectangle
NonZeroIn(grid, minRow, minCol, maxRow, maxCol) ==
  {p \in (minRow..maxRow) \X (minCol..maxCol) : grid[p[1] + 1][p[2] + 1] # 0}

\* C15: in a valid grid, a non-empty set S of nonzero cells of one row (one
\* column) whose values sum to 10 is returned as a Move if and only if every
\* cell of the row (column) between S's first and last column (row) that is
\* not in S holds 0.
C15_GapRule ==
  (pc = "loop" /\ IsValidGrid(ArgumentGrid)) =>
    LET grid == LoopGrid
        rows == 0..(Len(grid) - 1)
        cols == 0..(Len(grid[1]) - 1)
        returned == ReturnedSets(grid)
    IN /\ \A r \in rows : \A C \in (SUBSET cols) \ {{}} :
            LET S == {<<r, c>> : c \in C}
            IN ((\A c \in C : grid[r + 1][c + 1] # 0) /\ ValueSum(grid, S) = 10) =>
                 (S \in returned <=>
                    \A c \in Min(C)..Max(C) : c \notin C => grid[r + 1][c + 1] = 0)
       /\ \A c \in cols : \A R \in (SUBSET rows) \ {{}} :
            LET S == {<<r, c>> : r \in R}
            IN ((\A r \in R : grid[r + 1][c + 1] # 0) /\ ValueSum(grid, S) = 10) =>
                 (S \in returned <=>
                    \A r \in Min(R)..Max(R) : r \notin R => grid[r + 1][c + 1] = 0)

\* a grid in which one sum-10 subset of a row or column is refused for a
\* nonzero cell in its span and another is returned across a 0
C15_Witness ==
  /\ pc = "loop"
  /\ IsValidGrid(ArgumentGrid)
  /\ LET grid == LoopGrid
         rows == 0..(Len(grid) - 1)
         cols == 0..(Len(grid[1]) - 1)
         RowSets == {{<<r, c>> : c \in C} : r \in rows, C \in (SUBSET cols) \ {{}}}
         ColSets == {{<<r, c>> : r \in R} : c \in cols, R \in (SUBSET rows) \ {{}}}
         Sums(S) == (\A p \in S : grid[p[1] + 1][p[2] + 1] # 0) /\ ValueSum(grid, S) = 10
         Gap(S) == {p \in (Min({q[1] : q \in S})..Max({q[1] : q \in S}))
                           \X (Min({q[2] : q \in S})..Max({q[2] : q \in S})) : p \notin S}
         returned == ReturnedSets(grid)
     IN /\ \E S \in RowSets \cup ColSets : Sums(S) /\ S \notin returned
        /\ \E S \in RowSets \cup ColSets : Sums(S) /\ S \in returned /\ Gap(S) # {}

\* C16: in a valid grid, every rectangle of at least two rows and two columns
\* whose nonzero cells are not none and sum to 10 has all its nonzero cells
\* returned as one Move; and a returned Move with cells in two rows and in two
\* columns is the whole nonzero content of its bounding rectangle.
C16_RectangleRule ==
  (pc = "loop" /\ IsValidGrid(ArgumentGrid)) =>
    LET grid == LoopGrid
        rows == 0..(Len(grid) - 1)
        cols == 0..(Len(grid[1]) - 1)
        combinations == findValidCombinations(grid)
        returned == {Coordinates(combinations[m]) : m \in 1..Len(combinations)}
    IN /\ \A minRow \in rows, maxRow \in rows, minCol \in cols, maxCol \in cols :
            (minRow < maxRow /\ minCol < maxCol) =>
              LET S == NonZeroIn(grid, minRow, minCol, maxRow, maxCol)
              IN (S # {} /\ ValueSum(grid, S) = 10) => S \in returned
       /\ \A m \in 1..Len(combinations) :
            LET S == Coordinates(combinations[m])
                Rs == {p[1] : p \in S}
                Cs == {p[2] : p \in S}
            IN (Cardinality(Rs) >= 2 /\ Cardinality(Cs) >= 2) =>
                 S = NonZeroIn(grid, Min(Rs), Min(Cs), Max(Rs), Max(Cs))

\* a rectangle Move that leaves out no nonzero cell of its rectangle but does
\* not fill it (the rectangle holds a 0), next to a Move within one row
C16_Witness ==
  /\ pc = "loop"
  /\ IsValidGrid(ArgumentGrid)
  /\ LET combinations == findValidCombinations(LoopGrid)
     IN /\ \E m \in 1..Len(combinations) :
             LET S == Coordinates(combinations[m])
                 Rs == {p[1] : p \in S}
                 Cs == {p[2] : p \in S}
             IN /\ Cardinality(Rs) >= 2
                /\ Cardinality(Cs) >= 2
                /\ Cardinality(S) < Cardinality(Rs) * Cardinality(Cs)
        /\ \E m \in 1..Len(combinations) :
             Cardinality({combinations[m][i].row : i \in 1..Len(combinations[m])}) = 1

\* the cell lists the three passes hand to addCombination, in order
Candidates(grid) ==
  LET rows == Len(grid)
      cols == IF rows > 0 THEN Len(grid[1]) ELSE 0
  IN horizontalSelections(grid) \o verticalSelections(grid, cols)
       \o rectangularSelections(grid, rows, cols)

\* a cell list back to front
Reversed(cells) == [i \in 1..Len(cells) |-> cells[Len(cells) + 1 - i]]

\* C17: no two returned Moves have the same set of coordinates, no Move holds
\* a coordinate twice, every cell list handed to addCombination is returned
\* once, and two such lists (in any order of their cells) have the same key
\* exactly when their coordinate sets are equal.
C17_Dedup ==
  pc = "loop" =>
    LET grid == LoopGrid
        combinations == findValidCombinations(grid)
        candidates == Candidates(grid)
        returned == [m \in 1..Len(combinations) |-> Coordinates(combinations[m])]
        handed == [a \in 1..Len(candidates) |-> Coordinates(candidates[a])]
        key == [a \in 1..Len(candidates) |-> combinationKey(candidates[a])]
        keyReversed == [a \in 1..Len(candidates) |-> combinationKey(Reversed(candidates[a]))]
    IN /\ \A m \in 1..Len(combinations), n \in 1..Len(combinations) :
            m # n => returned[m] # returned[n]
       /\ \A m \in 1..Len(combinations) :
            Cardinality(returned[m]) = Len(combinations[m])
       /\ \A a \in 1..Len(candidates) : handed[a] \in Range(returned)
       /\ \A a \in 1..Len(candidates), b \in 1..Len(candidates) :
            /\ (key[a] = key[b]) <=> (handed[a] = handed[b])
            /\ (keyReversed[a] = key[b]) <=> (handed[a] = handed[b])

\* the wide grid: the cells at columns 10 and 11 are handed over by the row
\* pass and again by a rectangle, and returned once; a key there sorts the
\* string of column 10 before that of column 2
C17_Witness ==
  /\ pc = "loop"
  /\ LoopGrid = WideGrid
  /\ \E a \in 1..Len(Candidates(WideGrid)), b \in 1..Len(Candidates(WideGrid)) :
       /\ a # b
       /\ Coordinates(Candidates(WideGrid)[a]) = {<<0, 10>>, <<0, 11>>}
       /\ Candidates(WideGrid)[a] = Candidates(WideGrid)[b]
  /\ Len(findValidCombinations(WideGrid)) < Len(Candidates(WideGrid))
  /\ combinationKey(<< [row |-> 0, col |-> 2, value |-> 5],
                       [row |-> 0, col |-> 10, value |-> 5] >>)
       = <<48, 45, 49, 48, 124, 48, 45, 50>>

----------------------------------------------------------------------------
(* solvePuzzle as one call, for the handlers that run it to completion *)

RECURSIVE solveLoop(_, _, _)
solveLoop(h, cur, acc) ==
  IF Len(findValidCombinations(Deref(h, cur))) = 0
  THEN [heap |-> h, steps |-> acc]
  ELSE LET r == applyBest(h, cur)
       IN solveLoop(r.heap, r.grid, Append(acc, r.step))

\* the Step[] returned for `grid`, each gridAfter by value (what a structured
\* clone or a React state holds)
solvePuzzle(grid) ==
  LET start == copyGrid(grid, [i \in 1..Len(grid) |-> i])
      end == solveLoop(start.heap, start.grid, <<>>)
  IN [k \in 1..Len(end.steps) |->
        [cells |-> end.steps[k].cells,
         sum |-> end.steps[k].sum,
         gridAfter |-> Deref(end.heap, end.steps[k].gridAfter)]]

\* solve_puzzle of the WASM package: the same solver, compiled from Rust
solve_puzzle(grid) == solvePuzzle(grid)

----------------------------------------------------------------------------
(* The workers: workers/solver.worker.ts (WASM) and the plain solver worker *)

\* grids carried by the messages of the worker specification
WorkerGrids == {ScenarioC, << <<5, 5>>, <<5, 5>> >>}

\* a message of the main thread; hasGrid = FALSE: the `grid` field is missing
Message(type, hasGrid, grid, id) ==
  [type |-> type, hasGrid |-> hasGrid, grid |-> grid, id |-> id]

NoMessage == Message("none", FALSE, <<>>, 0)

\* a message of the worker; `re` is the id of the message it answers (0: none)
resultResponse(stepList, id) ==
  [type |-> "result", steps |-> stepList, error |-> "", re |-> id]
errorResponse(text, id) ==
  [type |-> "error", steps |-> <<>>, error |-> text, re |-> id]
readyResponse ==
  [type |-> "ready", steps |-> <<>>, error |-> "", re |-> 0]

\* the error event the Worker object fires for an uncaught error of the script
errorEvent ==
  [type |-> "errorEvent", steps |-> <<>>, error |-> "", re |-> 0]

\* variant: the handler without its try/catch
onmessagePlainNoCatch(msg) ==
  IF msg.type = "solve"
  THEN IF ~msg.hasGrid THEN <<>>
       ELSE <<resultResponse(solvePuzzle(msg.grid), msg.id)>>
  ELSE <<>>

\* self.onmessage of the plain worker: what it posts for one message.
\* solvePuzzle throws a TypeError at initialGrid.map when there is no grid.
onmessagePlain(msg) ==
  IF msg.type = "solve"
  THEN IF ~msg.hasGrid
       THEN <<errorResponse("TypeError", msg.id)>>
       ELSE <<resultResponse(solvePuzzle(msg.grid), msg.id)>>
  ELSE <<>>

\* the WASM handler after `await initWasm()`: grid.map throws without a grid,
\* solve_puzzle returns or throws (`throws`); the catch posts the error
afterInitWasm(msg, throws) ==
  IF ~msg.hasGrid THEN <<errorResponse("TypeError", msg.id)>>
  ELSE IF throws THEN <<errorResponse("Unknown error", msg.id)>>
  ELSE <<resultResponse(solve_puzzle(msg.grid), msg.id)>>

\* the solver's state while only a worker is looked at
CoreIdle ==
  /\ heap = <<>>
  /\ callerGrid = <<>>
  /\ initialGrid = <<>>
  /\ currentGrid = <<>>
  /\ steps = <<>>
  /\ pc = "idle"
  /\ call = "first"
  /\ firstResult = <<>>

\* the worker right after its script ran: the WASM worker has called
\* initWasm(), whose init() is pending
WorkerStarted ==
  /\ workerKind \in {"plain", "wasm"}
  /\ inbox = <<>>
  /\ outbox = <<>>
  /\ wasmInitialized = FALSE
  /\ tasks = [id \in 0..MaxRequests |->
                [pc |-> IF id = 0 /\ workerKind = "wasm" THEN "initPending" ELSE "none",
                 msg |-> NoMessage]]
  /\ nextId = 1

WorkerInit == CoreIdle /\ WorkerStarted /\ NoHook

\* worker.postMessage on the main thread
PostMessage(type, hasGrid, grid) ==
  /\ nextId <= MaxRequests
  /\ inbox' = Append(inbox, Message(type, hasGrid, grid, nextId))
  /\ nextId' = nextId + 1
  /\ UNCHANGED <<workerKind, outbox, wasmInitialized, tasks, coreVars, hookVars>>

\* the plain worker handles a message: synchronous, start to end
DeliverPlain ==
  /\ workerKind = "plain"
  /\ inbox # <<>>
  /\ LET msg == Head(inbox)
     IN /\ outbox' = outbox \o onmessagePlain(msg)
        /\ tasks' = [tasks EXCEPT ![msg.id] = [pc |-> "finished", msg |-> msg]]
  /\ inbox' = Tail(inbox)
  /\ UNCHANGED <<workerKind, wasmInitialized, nextId, coreVars, hookVars>>

\* the WASM worker takes a message up to `await initWasm()`; a handler resumed
\* by an already settled promise runs before the next message is taken
DeliverWasm ==
  /\ workerKind = "wasm"
  /\ tasks[0].pc # "failed"
  /\ inbox # <<>>
  /\ \A id \in DOMAIN tasks : tasks[id].pc # "initSkipped"
  /\ LET msg == Head(inbox)
         at == IF msg.type # "solve" THEN "finished"
               ELSE IF ~wasmInitialized THEN "initPending"
               ELSE "initSkipped"
     IN tasks' = [tasks EXCEPT ![msg.id] = [pc |-> at, msg |-> msg]]
  /\ inbox' = Tail(inbox)
  /\ UNCHANGED <<workerKind, outbox, wasmInitialized, nextId, coreVars, hookVars>>

\* an init() resolves: wasmInitialized = true, then the awaiting code goes on
InitResolves(id, throws) ==
  /\ tasks[id].pc = "initPending"
  /\ wasmInitialized' = TRUE
  /\ outbox' = outbox \o (IF id = 0 THEN <<readyResponse>>
                          ELSE afterInitWasm(tasks[id].msg, throws))
  /\ tasks' = [tasks EXCEPT ![id].pc = "finished"]
  /\ UNCHANGED <<workerKind, inbox, nextId, coreVars, hookVars>>

\* an init() rejects: the start-up catch, or the handler's catch, posts 'error'
InitRejects(id) ==
  /\ tasks[id].pc = "initPending"
  /\ outbox' = outbox \o <<errorResponse(IF id = 0 THEN "Failed to initialize WASM"
                                          ELSE "init failed",
                                         id)>>
  /\ tasks' = [tasks EXCEPT ![id].pc = "finished"]
  /\ UNCHANGED <<workerKind, inbox, wasmInitialized, nextId, coreVars, hookVars>>

\* a handler whose initWasm() had nothing to do goes on
ResumeHandler(id, throws) ==
  /\ tasks[id].pc = "initSkipped"
  /\ outbox' = outbox \o afterInitWasm(tasks[id].msg, throws)
  /\ tasks' = [tasks EXCEPT ![id].pc = "finished"]
  /\ UNCHANGED <<workerKind, inbox, wasmInitialized, nextId, coreVars, hookVars>>

\* the module script of the WASM worker fails while it loads (its import of the
\* package, line 3): no handler is ever installed, the Worker fires `error`
ScriptFails ==
  /\ workerKind = "wasm"
  /\ tasks[0].pc = "initPending"
  /\ \A id \in 1..MaxRequests : tasks[id].pc = "none"
  /\ tasks' = [tasks EXCEPT ![0].pc = "failed"]
  /\ outbox' = Append(outbox, errorEvent)
  /\ UNCHANGED <<workerKind, inbox, wasmInitialized, nextId, coreVars, hookVars>>

\* the main thread of the worker specification posts any message: a 'solve'
\* with a grid or without one, or a message of another type
PostAny ==
  \/ \E g \in WorkerGrids : PostMessage("solve", TRUE, g)
  \/ PostMessage("solve", FALSE, <<>>)
  \/ PostMessage("other", TRUE, ScenarioC)

InitSettles ==
  \/ \E id \in 0..MaxRequests, throws \in BOOLEAN : InitResolves(id, throws)
  \/ \E id \in 0..MaxRequests : InitRejects(id)

Resume == \E id \in 1..MaxRequests, throws \in BOOLEAN : ResumeHandler(id, throws)

WorkerNext ==
  \/ PostAny
  \/ ScriptFails
  \/ DeliverPlain
  \/ DeliverWasm
  \/ InitSettles
  \/ Resume

WorkerSpec == WorkerInit /\ [][WorkerNext]_vars

----------------------------------------------------------------------------
(* hooks/useSolver.ts: the worker-backed hook *)

\* values typed into a cell: GridInput hands parseInt(value) || 0, an integer
EditValues == {-5, 1, 10}

\* arrays handed to importGrid (GridConfig hands whatever JSON.parse returned)
ImportGrids ==
  { << <<5, 5>> >>, << <<3, 7>>, <<7, 3>> >>,
    << >>, << <<>> >>, << <<>>, <<5>> >>,
    << <<5, 5>>, <<5>> >>, << <<5>>, <<5, 5>> >>,
    << <<10, 0>> >>, << <<0, -5>> >>, << <<5, 5>>, <<5, 10>> >> }

\* variant: the range test forgets the lower end
importGridAcceptsNoLowerBound(newGrid) ==
  IF Len(newGrid) = 0 THEN FALSE
  ELSE IF Len(newGrid[1]) = 0 THEN FALSE
  ELSE LET newWidth == Len(newGrid[1])
       IN \A i \in 1..Len(newGrid) :
            /\ ~(Len(newGrid[i]) # newWidth)
            /\ \A j \in 1..Len(newGrid[i]) : ~(newGrid[i][j] > 9)

\* importGrid's checks: TRUE where it goes on to set the state, FALSE where it
\* returns false (cells are integers here, so typeof and isInteger pass)
importGridAccepts(newGrid) ==
  IF Len(newGrid) = 0 THEN FALSE
  ELSE IF Len(newGrid[1]) = 0 THEN FALSE
  ELSE LET newWidth == Len(newGrid[1])
       IN \A i \in 1..Len(newGrid) :
            /\ ~(Len(newGrid[i]) # newWidth)
            /\ \A j \in 1..Len(newGrid[i]) :
                 ~(newGrid[i][j] < 0 \/ newGrid[i][j] > 9)

\* Math.min(9, Math.max(0, value))
clampDigit(value) ==
  LET lower == IF value > 0 THEN value ELSE 0
  IN IF lower < 9 THEN lower ELSE 9

\* grids the hook starts from: created empty with a chosen size, or imported
StartGrids ==
  {createEmptyGrid(h, w) : h \in Sizes, w \in Sizes}
    \cup {<< <<5, 5>> >>, << <<5, 5>>, <<5, 5>> >>}

\* the hook once mounted and given a grid (the default 8 x 14 grid is beyond
\* the bounds); its worker has just started
HookInit ==
  /\ CoreIdle
  /\ WorkerStarted
  /\ workerKind = "wasm"
  /\ gridState \in StartGrids
  /\ height = Len(gridState)
  /\ width = Len(gridState[1])
  /\ solution = <<>>
  /\ currentStep = 0
  /\ isSolving = FALSE
  /\ isWasmReady = FALSE
  /\ ops = 0
  /\ lastOp = NoOp

\* setWidth / setHeight as GridConfig calls them: clamped to 1.. by its onChange
SetWidth(w) ==
  /\ ops < MaxOps
  /\ ops' = ops + 1
  /\ width' = w
  /\ lastOp' = Op("setWidth", <<>>, 0, 0, w, FALSE)
  /\ UNCHANGED <<height, gridState, solution, currentStep, isSolving, isWasmReady,
                 coreVars, workerVars>>

SetHeight(h) ==
  /\ ops < MaxOps
  /\ ops' = ops + 1
  /\ height' = h
  /\ lastOp' = Op("setHeight", <<>>, 0, 0, h, FALSE)
  /\ UNCHANGED <<width, gridState, solution, currentStep, isSolving, isWasmReady,
                 coreVars, workerVars>>

InitializeGrid ==
  /\ ops < MaxOps
  /\ ops' = ops + 1
  /\ gridState' = createEmptyGrid(height, width)
  /\ solution' = <<>>
  /\ currentStep' = 0
  /\ lastOp' = Op("initializeGrid", <<>>, 0, 0, 0, FALSE)
  /\ UNCHANGED <<width, height, isSolving, isWasmReady, coreVars, workerVars>>

ImportGrid(newGrid) ==
  /\ ops < MaxOps
  /\ ops' = ops + 1
  /\ IF importGridAccepts(newGrid)
     THEN /\ width' = Len(newGrid[1])
          /\ height' = Len(newGrid)
          /\ gridState' = [i \in 1..Len(newGrid) |-> newGrid[i]]
          /\ solution' = <<>>
          /\ currentStep' = 0
          /\ lastOp' = Op("importGrid", newGrid, 0, 0, 0, TRUE)
     ELSE /\ lastOp' = Op("importGrid", newGrid, 0, 0, 0, FALSE)
          /\ UNCHANGED <<width, height, gridState, solution, currentStep>>
  /\ UNCHANGED <<isSolving, isWasmReady, coreVars, workerVars>>

\* updateCell on a cell GridInput shows
UpdateCell(row, col, value) ==
  /\ ops < MaxOps
  /\ Defined(gridState, row, col)
  /\ ops' = ops + 1
  /\ gridState' = [gridState EXCEPT ![row + 1][col + 1] = clampDigit(value)]
  /\ solution' = <<>>
  /\ lastOp' = Op("updateCell", <<>>, row, col, value, FALSE)
  /\ UNCHANGED <<width, height, currentStep, isSolving, isWasmReady, coreVars, workerVars>>

\* solve: returns at once while isSolving, else posts the grid to the worker
Solve ==
  /\ ops < MaxOps
  /\ ops' = ops + 1
  /\ ~isSolving
  /\ nextId <= MaxRequests
  /\ isSolving' = TRUE
  /\ inbox' = Append(inbox, Message("solve", TRUE, gridState, nextId))
  /\ nextId' = nextId + 1
  /\ lastOp' = Op("solve", <<>>, 0, 0, 0, FALSE)
  /\ UNCHANGED <<width, height, gridState, solution, currentStep, isWasmReady,
                 workerKind, outbox, wasmInitialized, tasks, coreVars>>

Reset ==
  /\ ops < MaxOps
  /\ ops' = ops + 1
  /\ solution' = <<>>
  /\ currentStep' = 0
  /\ lastOp' = Op("reset", <<>>, 0, 0, 0, FALSE)
  /\ UNCHANGED <<width, height, gridState, isSolving, isWasmReady,
                 coreVars, workerVars>>

\* goToStep(step)
GoToStep(step) ==
  /\ ops < MaxOps
  /\ ops' = ops + 1
  /\ currentStep' = step
  /\ lastOp' = Op("goToStep", <<>>, 0, 0, step, FALSE)
  /\ UNCHANGED <<width, height, gridState, solution, isSolving, isWasmReady,
                 coreVars, workerVars>>

\* nextStep: nothing while solution is null
NextStep ==
  /\ ops < MaxOps
  /\ ops' = ops + 1
  /\ IF solution # <<>>
     THEN currentStep' = Min({Len(solution[1]) - 1, currentStep + 1})
     ELSE UNCHANGED currentStep
  /\ lastOp' = Op("nextStep", <<>>, 0, 0, 0, FALSE)
  /\ UNCHANGED <<width, height, gridState, solution, isSolving, isWasmReady,
                 coreVars, workerVars>>

\* prevStep
PrevStep ==
  /\ ops < MaxOps
  /\ ops' = ops + 1
  /\ currentStep' = Max({0, currentStep - 1})
  /\ lastOp' = Op("prevStep", <<>>, 0, 0, 0, FALSE)
  /\ UNCHANGED <<width, height, gridState, solution, isSolving, isWasmReady,
                 coreVars, workerVars>>

\* the outcome of a useMemo callback: a value, or a TypeError thrown while
\* reading a property of undefined
Value(v) == [throws |-> FALSE, value |-> v]
TypeError == [throws |-> TRUE, value |-> <<>>]

\* currentDisplayGrid: solution[currentStep - 1].gridAfter throws when that
\* element does not exist
currentDisplayGrid ==
  IF solution = <<>> \/ currentStep = 0 THEN Value(gridState)
  ELSE IF currentStep \in 1..Len(solution[1])
       THEN Value(solution[1][currentStep].gridAfter)
  ELSE TypeError

\* highlightedCells: the 'row-col' pairs of solution[currentStep].cells
highlightedCells ==
  IF solution = <<>> \/ currentStep >= Len(solution[1]) THEN Value({})
  ELSE IF currentStep + 1 \in 1..Len(solution[1])
       THEN Value(Coordinates(solution[1][currentStep + 1].cells))
  ELSE TypeError

\* totalCleared of a solution (<<>> for null, <<steps>> for a Step list):
\* solution.reduce((acc, step) => acc + step.cells.length, 0), 0 for null
totalCleared(sol) ==
  IF sol = <<>> THEN 0
  ELSE SumSeq([k \in 1..Len(sol[1]) |-> Len(sol[1][k].cells)])

\* worker.onerror on the main thread
OnError ==
  /\ outbox # <<>>
  /\ Head(outbox).type = "errorEvent"
  /\ isSolving' = FALSE
  /\ outbox' = Tail(outbox)
  /\ UNCHANGED <<width, height, gridState, solution, currentStep, isWasmReady, ops, lastOp,
                 workerKind, inbox, wasmInitialized, tasks, nextId, coreVars>>

\* worker.onmessage on the main thread, for the oldest message of the worker
OnMessage ==
  /\ outbox # <<>>
  /\ Head(outbox).type # "errorEvent"
  /\ LET data == Head(outbox)
     IN IF data.type = "ready"
        THEN /\ isWasmReady' = TRUE
             /\ UNCHANGED <<solution, currentStep, isSolving>>
        ELSE IF data.type = "result"
        THEN /\ solution' = <<data.steps>>
             /\ currentStep' = 0
             /\ isSolving' = FALSE
             /\ UNCHANGED isWasmReady
        ELSE /\ solution' = << <<>> >>
             /\ isSolving' = FALSE
             /\ UNCHANGED <<currentStep, isWasmReady>>
  /\ outbox' = Tail(outbox)
  /\ UNCHANGED <<width, height, gridState, ops, lastOp,
                 workerKind, inbox, wasmInitialized, tasks, nextId, coreVars>>

SetSize ==
  \/ \E w \in Sizes : SetWidth(w)
  \/ \E h \in Sizes : SetHeight(h)

Import == \E newGrid \in ImportGrids : ImportGrid(newGrid)

Edit ==
  \E row \in 0..(Len(gridState) - 1) :
    \E col \in 0..(Len(gridState[row + 1]) - 1), value \in EditValues :
      UpdateCell(row, col, value)

\* SolutionDisplay's step buttons: onStepChange(idx) for the steps it lists
GoTo ==
  /\ solution # <<>>
  /\ \E step \in 0..(Len(solution[1]) - 1) : GoToStep(step)

HookNext ==
  \/ SetSize
  \/ InitializeGrid
  \/ Import
  \/ Edit
  \/ Solve
  \/ Reset
  \/ GoTo
  \/ NextStep
  \/ PrevStep
  \/ OnMessage
  \/ OnError
  \/ ScriptFails
  \/ DeliverWasm
  \/ InitSettles
  \/ Resume

HookSpec == HookInit /\ [][HookNext]_vars

----------------------------------------------------------------------------
(* C8: the worker answers every 'solve' message exactly once *)

\* the responses posted for message `id`, in order
ResponsesTo(id) == SelectSeq(outbox, LAMBDA r : r.re = id)

\* the grid handed on clearing the cells of a Move
Cleared(g, cells) ==
  [i \in 1..Len(g) |-> [j \in 1..Len(g[i]) |->
     IF <<i - 1, j - 1>> \in Coordinates(cells) THEN 0 ELSE g[i][j]]]

\* stepList is a whole solution of g: every Step is a Move of the grid before
\* it, its gridAfter is that grid with the Move cleared, and the last grid has
\* no Move left
RECURSIVE CompleteSolution(_, _)
CompleteSolution(g, stepList) ==
  IF stepList = <<>> THEN findValidCombinations(g) = <<>>
  ELSE /\ \E m \in 1..Len(findValidCombinations(g)) :
            findValidCombinations(g)[m] = stepList[1].cells
       /\ stepList[1].gridAfter = Cleared(g, stepList[1].cells)
       /\ CompleteSolution(stepList[1].gridAfter, Tail(stepList))

\* C8: a 'solve' message whose handler has run to its end has exactly one
\* response, a 'result' with a complete Step sequence of its grid or an 'error'
\* with a description; a handler still waiting has posted nothing, and a
\* message of another type is never answered.
C8_OneResponse ==
  \A id \in 1..MaxRequests :
    LET t == tasks[id]
        rs == ResponsesTo(id)
    IN /\ (t.pc = "finished" /\ t.msg.type = "solve") =>
            /\ Len(rs) = 1
            /\ \/ /\ rs[1].type = "result"
                  /\ t.msg.hasGrid
                  /\ CompleteSolution(t.msg.grid, rs[1].steps)
               \/ /\ rs[1].type = "error"
                  /\ rs[1].error # ""
       /\ (t.pc # "finished" \/ t.msg.type # "solve") => Len(rs) = 0

\* both outcomes, in one worker: a two-Step result and an error
C8_Witness ==
  /\ \A id \in 1..MaxRequests : tasks[id].pc = "finished" /\ tasks[id].msg.type = "solve"
  /\ \E r \in Range(outbox) : r.type = "result" /\ Len(r.steps) = 2
  /\ \E r \in Range(outbox) : r.type = "error" /\ r.re # 0

----------------------------------------------------------------------------
(* C7: what happens to a grid or a value that is not valid *)

\* a user operation of the hook has just run
UserOp(name) == ops' = ops + 1 /\ lastOp'.name = name

\* the messages the worker has been sent so far, delivered or not
SentMessages ==
  Range(inbox) \cup {tasks[id].msg : id \in {i \in 1..MaxRequests : tasks[i].pc # "none"}}

----------------------------------------------------------------------------
(* C18, C19, C20: the hook's solution, in-flight flag and step index *)

\* C18: a solution that holds Steps is the solution of the grid the hook holds
\* now: a result computed for a grid that was since replaced or edited is not
\* installed.
C18_SolutionOfCurrentGrid ==
  (solution # <<>> /\ solution[1] # <<>>) => solution[1] = solvePuzzle(gridState)

\* the 'solve' requests posted whose response the hook has not handled yet
Outstanding ==
  {id \in 1..(nextId - 1) :
     \/ tasks[id].pc # "finished"
     \/ \E r \in Range(outbox) : r.re = id}

\* C19: while the worker runs, at most one request is outstanding, and
\* isSolving is true exactly while one is: from the post until the response to
\* that request is handled; the start-up messages of the worker do not end it.
C19_OneOutstanding ==
  tasks[0].pc # "failed" =>
    /\ Cardinality(Outstanding) <= 1
    /\ isSolving <=> Outstanding # {}

\* C20: currentStep is never negative, and while there is a solution it is 0
\* or the number of an existing Step, so that currentDisplayGrid is defined.
C20_CurrentStepInRange ==
  /\ currentStep >= 0
  /\ solution # <<>> => currentStep \in 0..Len(solution[1])
  /\ ~currentDisplayGrid.throws

----------------------------------------------------------------------------
(* C21 .. C22: what a Solution clears *)

\* the number of cells of a grid that hold a value other than 0
countNonZero(grid) ==
  Len(SelectSeq(Flatten(grid), LAMBDA v : v # 0))

\* the grid the Steps so far have led to: the last gridAfter, or the argument
LastGrid ==
  IF steps = <<>> THEN ArgumentGrid ELSE GridAfter(steps, Len(steps))

\* C21: the coordinate sets of different Steps of one Solution are pairwise
\* disjoint and no Step names a cell twice, so totalCleared (the sum of the
\* Steps' cell counts) plus the nonzero cells of the final gridAfter equals the
\* nonzero cells of the initial grid; the same holds for the blocks (> 0) that
\* countRemainingBlocks counts.
C21_DisjointSteps ==
  pc # "idle" =>
    /\ \A j \in 1..Len(steps) : \A k \in 1..Len(steps) :
         j # k => Coordinates(steps[j].cells) \cap Coordinates(steps[k].cells) = {}
    /\ \A k \in 1..Len(steps) :
         Cardinality(Coordinates(steps[k].cells)) = Len(steps[k].cells)
    /\ totalCleared(<<steps>>) + countNonZero(LastGrid) = countNonZero(ArgumentGrid)
    /\ totalCleared(<<steps>>) + countRemainingBlocks(LastGrid)
         = countRemainingBlocks(ArgumentGrid)

\* a returned Solution of two Steps or more that leaves a nonzero cell
C21_Witness ==
  /\ pc = "returned"
  /\ Len(steps) >= 2
  /\ totalCleared(<<steps>>) >= 4
  /\ countNonZero(LastGrid) > 0

\* C22: on a grid whose values are all in 0..9, every Move that
\* findValidCombinations returns has at least two cells, so every Step clears
\* at least two cells and the number of Steps is at most half the number of
\* nonzero cells of the initial grid, rounded down.
C22_AtLeastTwoCells ==
  (pc # "idle" /\ DigitGrid(ArgumentGrid)) =>
    /\ pc = "loop" =>
         LET combinations == findValidCombinations(LoopGrid)
         IN \A m \in 1..Len(combinations) : Len(combinations[m]) >= 2
    /\ \A k \in 1..Len(steps) : Len(steps[k].cells) >= 2
    /\ Len(steps) <= countNonZero(ArgumentGrid) \div 2

\* a returned Solution of a digit grid with an odd number of nonzero cells
\* whose Steps all have two cells: the bound is met with the rounding
C22_Witness ==
  /\ pc = "returned"
  /\ DigitGrid(ArgumentGrid)
  /\ countNonZero(ArgumentGrid) % 2 = 1
  /\ Len(steps) >= 2
  /\ Len(steps) = countNonZero(ArgumentGrid) \div 2

----------------------------------------------------------------------------
(* C23: init() in the WASM worker *)

\* an init() has rejected, or the script never ran: the start-up catch or a
\* handler's catch has posted its 'error'
InitFailed ==
  \/ \E r \in Range(outbox) :
       r.type = "error" /\ r.error \in {"Failed to initialize WASM", "init failed"}
  \/ \E id \in DOMAIN tasks : tasks[id].pc = "failed"

\* the step invokes init() for task id: initWasm() found wasmInitialized false
InitInvoked(id) ==
  /\ tasks[id].pc # "initPending"
  /\ tasks'[id].pc = "initPending"

\* the step posts the 'result' of a solve_puzzle call
SolvePuzzleReturned ==
  /\ Len(outbox') = Len(outbox) + 1
  /\ outbox'[Len(outbox')].type = "result"

\* C23: in the WASM worker, while no init() has failed, init() is invoked at
\* most once per worker lifetime (the start-up call; a handler invokes it only
\* when no other invocation is pending or has resolved), whatever the order of
\* 'solve' messages and the start-up initialization, and solve_puzzle runs
\* only after an init() has completed successfully.
C23_InitOnce ==
  [][ (workerKind = "wasm" /\ ~InitFailed) =>
        /\ \A id \in DOMAIN tasks :
             InitInvoked(id) =>
               /\ ~wasmInitialized
               /\ \A other \in DOMAIN tasks : tasks[other].pc # "initPending"
        /\ SolvePuzzleReturned => wasmInitialized' ]_vars

====
